---- MODULE Spec2Model ----
(***************************************************************************)
(* EigenConvOp<T> of caffe2/operators/conv_op_eigen.cc: the 2-D            *)
(* convolution operator of the EIGEN engine, with its channel-first        *)
(* (RunOnDeviceWithOrderNCHW) and channel-last (RunOnDeviceWithOrderNHWC)  *)
(* entry points.                                                           *)
(*                                                                         *)
(* Tensors are flat buffers with a dimension descriptor, as in the code:   *)
(* every reshape, shuffle and map below works on the linear index of the   *)
(* buffer, so that a wrong layout gives a wrong value.  The element type T *)
(* is modelled by the integers (exact arithmetic); tensor indices are      *)
(* 0-based as in the code, buffer positions are 1-based sequences.         *)
(***************************************************************************)
EXTENDS Integers, Sequences, FiniteSets, TLC

(***************************************************************************)
(* Buffers and dimension descriptors                                       *)
(***************************************************************************)

RECURSIVE Size(_)
\* Tensor::size() of a dimension descriptor: the product of its dimensions.
Size(d) == IF d = <<>> THEN 1 ELSE Head(d) * Size(Tail(d))

\* The row-major stride of dimension i (0-based) of descriptor d.
Stride(d, i) == Size(SubSeq(d, i + 2, Len(d)))

\* The coordinate along dimension i (0-based) of the row-major linear index lin.
Coord(d, i, lin) == (lin \div Stride(d, i)) % d[i + 1]

\* Eigen::TensorMap<Eigen::Tensor<T, 4, Eigen::RowMajor>>(data, d0, d1, d2, d3):
\* a view of a buffer under a dimension descriptor.
TensorMap(data, d) == [dims |-> d, data |-> data]

\* The coefficient of a row-major tensor at a 0-based coordinate tuple.
At(t, idx) ==
  LET RECURSIVE Off(_)
      Off(i) == IF i > Len(idx) THEN 0
                ELSE idx[i] * Stride(t.dims, i - 1) + Off(i + 1)
  IN t.data[Off(1) + 1]

\* ceil(a / b) for b > 0, as numext::ceil of the float quotient.
CeilDiv(a, b) == -((-a) \div b)

(***************************************************************************)
(* The Eigen tensor expressions the operator is built from                 *)
(* (Eigen::RowMajor throughout, as the code declares every tensor)         *)
(***************************************************************************)

\* expr.shuffle(shuffles): dimension i of the result is dimension shuffles[i]
\* of the argument (0-based, as in the Eigen::array initialisers).
Shuffle(t, shuffles) ==
  LET r    == Len(t.dims)
      odim == [i \in 1..r |-> t.dims[shuffles[i] + 1]]
      ostr == [i \in 1..r |-> Stride(odim, i - 1)]
      istr == [i \in 1..r |-> Stride(t.dims, shuffles[i])]
      RECURSIVE Src(_, _)
      Src(lin, i) == IF i > r THEN 0
                     ELSE ((lin \div ostr[i]) % odim[i]) * istr[i] + Src(lin, i + 1)
  IN [dims |-> odim,
      data |-> [p \in 1..Size(odim) |-> t.data[Src(p - 1, 1) + 1]]]

\* expr.reshape(dims): the same coefficients in the same linear order under
\* another dimension descriptor.
Reshape(t, d) == [dims |-> d, data |-> t.data]

\* expr.extract_image_patches(patch_rows, patch_cols, row_stride, col_stride,
\*     in_row_stride, in_col_stride, row_inflate_stride = 1,
\*     col_inflate_stride = 1, padding_top, padding_bottom, padding_left,
\*     padding_right, padding_value) of a row-major 4-D tensor.  In row-major
\* order Eigen reads the argument as (batch, cols, rows, depth) and returns
\* (batch, patches, patch_cols, patch_rows, depth); a coefficient is found
\* from its linear index as TensorImagePatchOp's evaluator does.
ExtractImagePatches(t, patch_rows, patch_cols, row_stride, col_stride, in_row_stride, in_col_stride, padding_top, padding_bottom, padding_left, padding_right, padding_value) ==
  LET inputDepth == t.dims[4]
      inputRows  == t.dims[3]
      inputCols  == t.dims[2]
      patch_rows_eff == patch_rows + (patch_rows - 1) * (in_row_stride - 1)
      patch_cols_eff == patch_cols + (patch_cols - 1) * (in_col_stride - 1)
      outputRows == CeilDiv(inputRows + padding_top + padding_bottom
                              - patch_rows_eff + 1, row_stride)
      outputCols == CeilDiv(inputCols + padding_left + padding_right
                              - patch_cols_eff + 1, col_stride)
      odim == <<t.dims[1], outputRows * outputCols, patch_cols, patch_rows,
                inputDepth>>
      colStride   == patch_rows
      patchStride == colStride * patch_cols * inputDepth
      otherStride == patchStride * (outputRows * outputCols)
      rowInputStride   == inputDepth
      colInputStride   == inputDepth * inputRows
      patchInputStride == inputDepth * inputRows * inputCols
      coeff(index) ==
        LET patchIndex   == index \div patchStride
            patchOffset  == (index - patchIndex * patchStride) \div inputDepth
            otherIndex   == index \div otherStride
            patch2DIndex == (index - otherIndex * otherStride) \div patchStride
            colIndex  == patch2DIndex \div outputRows
            colOffset == patchOffset \div colStride
            inputCol  == colIndex * col_stride + colOffset * in_col_stride
                           - padding_left
            rowIndex  == patch2DIndex - colIndex * outputRows
            rowOffset == patchOffset - colOffset * colStride
            inputRow  == rowIndex * row_stride + rowOffset * in_row_stride
                           - padding_top
            depth     == index - (index \div inputDepth) * inputDepth
        IN IF inputCol < 0 \/ inputCol >= inputCols
             THEN padding_value
           ELSE IF inputRow < 0 \/ inputRow >= inputRows
             THEN padding_value
           ELSE t.data[depth + inputRow * rowInputStride
                         + inputCol * colInputStride
                         + otherIndex * patchInputStride + 1]
  IN [dims |-> odim,
      data |-> [p \in 1..Size(odim) |-> coeff(p - 1)]]

\* a.contract(b, {IndexPair(1, 0)}) of two rank-2 tensors: dimension 1 of a
\* is summed against dimension 0 of b, the ordinary matrix product.
Contract(a, b) ==
  LET R == a.dims[1]
      K == a.dims[2]
      M == b.dims[2]
      RECURSIVE Dot(_, _, _)
      Dot(r, m, k) == IF k = K THEN 0
                      ELSE a.data[r * K + k + 1] * b.data[k * M + m + 1]
                             + Dot(r, m, k + 1)
  IN [dims |-> <<R, M>>,
      data |-> [p \in 1..(R * M) |-> Dot((p - 1) \div M, (p - 1) % M, 0)]]

\* ConstEigenArrayMap<T>(data, rows, cols).transpose() stored into a
\* (column-major) Eigen::Array of cols x rows coefficients: coefficient
\* (c, r) of the result, at position c + r * cols, is coefficient (r, c) of
\* the map, at position r + c * rows.
ArrayMapTranspose(data, rows, cols) ==
  [p \in 1..(rows * cols) |->
     data[((p - 1) \div cols) + ((p - 1) % cols) * rows + 1]]

\* EigenArrayMap<T> Y_arr(data, M, cols); Y_arr = Y_arr.colwise() + bias_arr:
\* the column-major map has the M coefficients of a column contiguous, and
\* the bias vector is added to every column.
ColwiseAdd(data, M, bias_arr) ==
  [p \in 1..Len(data) |-> data[p] + bias_arr[((p - 1) % M) + 1]]

(***************************************************************************)
(* The operator's state                                                    *)
(***************************************************************************)

VARIABLES
  order,          \* the layout the operator was built with: which entry point runs
  op,             \* kernel_h_, kernel_w_, stride_*_, dilation_*_, pad_*_ of the base class
  dims,           \* the dimension descriptors of the caller's tensors X, filter, bias, Y
  heap,           \* the contents of every buffer, the caller's and the call's own
  X_tensor,       \* the input tensor the patches are taken from: a view (buf, dims)
  filter_tensor,  \* the (kernel_h, kernel_w, C, M) filter: a view (buf, dims)
  Y_tensor,       \* the channel-last result: a view (buf, dims)
  pc,             \* the position of the call in the entry point
  err,            \* the failure the call ended with, "none" otherwise
  pre             \* the caller's tensors as they were when the call started

vars == <<order, op, dims, heap, X_tensor, filter_tensor, Y_tensor, pc, err, pre>>

\* The caller's tensors: Input(INPUT), Input(FILTER), Input(BIAS), Output(0).
Caller == {"X", "filter", "bias", "Y"}

\* The buffers the two entry points allocate themselves.
Locals == {"X_tensor", "filter_tensor", "Y_tensor", "temp_filter"}

\* A view that is not bound to any buffer yet.
NoView == [buf |-> "none", dims |-> <<>>]

\* The tensor a view denotes in a heap.
Deref(h, v) == [dims |-> v.dims, data |-> h[v.buf]]

\* Leaving the entry point: its local tensors go out of scope.
Release(h) == [b \in DOMAIN h |-> IF b \in Locals THEN <<>> ELSE h[b]]

(***************************************************************************)
(* ConvPoolOpBase<CPUContext>: the collaborator that knows the output size *)
(***************************************************************************)

\* The output extent along one axis that the convolution arithmetic yields.
OutputDim(in, kernel, stride, dilation, pad_before, pad_after) ==
  (in + pad_before + pad_after - dilation * (kernel - 1) - 1) \div stride + 1

\* The output height and width for the input descriptor xd in layout ord.
OutputHW(ord, xd, o) ==
  LET H == IF ord = "NCHW" THEN xd[3] ELSE xd[2]
      W == IF ord = "NCHW" THEN xd[4] ELSE xd[3]
  IN <<OutputDim(H, o.kernel_h_, o.stride_h_, o.dilation_h_, o.pad_t_, o.pad_b_),
       OutputDim(W, o.kernel_w_, o.stride_w_, o.dilation_w_, o.pad_l_, o.pad_r_)>>

\* Mutant of SetOutputSize: the output is resized to what the arithmetic
\* yields, whatever size the caller supplied.
SetOutputSize_resizing(ord, d, o) ==
  [ok |-> TRUE,
   Y  |-> IF ord = "NCHW"
            THEN <<d.X[1], d.filter[1], OutputHW(ord, d.X, o)[1], OutputHW(ord, d.X, o)[2]>>
            ELSE <<d.X[1], OutputHW(ord, d.X, o)[1], OutputHW(ord, d.X, o)[2], d.filter[1]>>]

\* ConvPoolOpBase<CPUContext>::SetOutputSize(X, Y, output_channel): the
\* caller's output buffer must already have the spatial size the arithmetic
\* yields; the call succeeds exactly then, and leaves the descriptor Y as it
\* found it.
SetOutputSize(ord, d, o) ==
  [ok |-> /\ Len(d.Y) = 4
          /\ IF ord = "NCHW" THEN <<d.Y[3], d.Y[4]>> = OutputHW(ord, d.X, o)
                             ELSE <<d.Y[2], d.Y[3]>> = OutputHW(ord, d.X, o),
   Y  |-> d.Y]

(***************************************************************************)
(* EigenConvOp<T>::RunOnDeviceWithOrderNCHW                                *)
(***************************************************************************)

\* Mutant of NCHW_Enforce: the length of the bias is not compared with M.
NCHW_Enforce_no_bias_length(d, o) ==
  /\ 4 = Len(d.filter)
  /\ d.filter[2] = d.X[2]
  /\ d.filter[3] = o.kernel_h_
  /\ d.filter[4] = o.kernel_w_
  /\ 1 = Len(d.bias)

\* The CAFFE_ENFORCE conditions on the filter and the bias, in order.
NCHW_Enforce(d, o) ==
  /\ 4 = Len(d.filter)
  /\ d.filter[2] = d.X[2]
  /\ d.filter[3] = o.kernel_h_
  /\ d.filter[4] = o.kernel_w_
  /\ 1 = Len(d.bias)
  /\ d.bias[1] = d.filter[1]

kernel_shuffles == <<2, 3, 1, 0>>

input_shuffles == <<0, 2, 3, 1>>

output_shuffles == <<0, 3, 1, 2>>

\* filter_tensor: the (M, C, kernel_h, kernel_w) filter shuffled into a
\* tensor of its own.
NCHW_filter_tensor(filter_data, d, o) ==
  Shuffle(TensorMap(filter_data, <<d.filter[1], d.X[2], o.kernel_h_, o.kernel_w_>>), kernel_shuffles)

\* X_tensor: the (N, C, H, W) input shuffled into a tensor of its own.
NCHW_X_tensor(X_data, d) ==
  Shuffle(TensorMap(X_data, <<d.X[1], d.X[2], d.X[3], d.X[4]>>), input_shuffles)

\* The extract_image_patches call: Eigen's rows are the width and its cols
\* the height, and the stride, dilation and pad arguments follow that.
NCHW_Patches(Xt, o) ==
  ExtractImagePatches(Xt, o.kernel_w_, o.kernel_h_, o.stride_w_, o.stride_h_, o.dilation_w_, o.dilation_h_, o.pad_l_, o.pad_r_, o.pad_t_, o.pad_b_, 0)

\* filter_tensor.reshape(kernel_dims): the matrix the patches are contracted with.
NCHW_KernelMatrix(Ft, d, o) ==
  Reshape(Ft, <<o.kernel_h_ * o.kernel_w_ * d.X[2], d.filter[1]>>)

\* Y_tensor = X_tensor.extract_image_patches(...).reshape(pre_contract_dims)
\*              .contract(filter_tensor.reshape(kernel_dims), contract_dims)
\*              .reshape(Y_tensor.dimensions())
NCHW_Convolve(Xt, Ft, d, o) ==
  LET M == d.filter[1]
      pre_contract_dims == <<Size(d.Y) \div M, o.kernel_h_ * o.kernel_w_ * d.X[2]>>
      Y_tensor_dims == <<d.Y[1], d.Y[3], d.Y[4], d.Y[2]>>
  IN Reshape(Contract(Reshape(NCHW_Patches(Xt, o), pre_contract_dims),
                      NCHW_KernelMatrix(Ft, d, o)),
             Y_tensor_dims)

\* Mutant of NCHW_BiasAdd: the map is taken as (size / M) x M, so that the
\* bias is indexed by the slow-varying position instead of the channel.
NCHW_BiasAdd_by_position(Y_data, d, bias_data) ==
  [p \in 1..Len(Y_data) |->
     Y_data[p] + bias_data[((p - 1) \div (Len(Y_data) \div d.filter[1])) + 1]]

\* Y_arr = Y_arr.colwise() + bias_arr over Y_tensor.data().
NCHW_BiasAdd(Y_data, d, bias_data) == ColwiseAdd(Y_data, d.filter[1], bias_data)

\* Mutant of NCHW_Output: the channel-last result is copied out as it is.
NCHW_Output_untransposed(Yt) == Yt.data

\* The last transpose: Y_tensor.shuffle(output_shuffles), assigned through a
\* map of the caller's output buffer.
NCHW_Output(Yt) == Shuffle(Yt, output_shuffles).data

\* Lines 28-40: read the dimensions, enforce the shapes, SetOutputSize.
NCHW_Validate ==
  /\ order = "NCHW"
  /\ pc = "start"
  /\ IF ~NCHW_Enforce(dims, op)
       THEN pc' = "failed" /\ err' = "EnforceNotMet" /\ dims' = dims
     ELSE IF ~SetOutputSize(order, dims, op).ok
       THEN pc' = "failed" /\ err' = "InconsistentOutputSize" /\ dims' = dims
     ELSE pc' = "sized" /\ err' = err
            /\ dims' = [dims EXCEPT !.Y = SetOutputSize(order, dims, op).Y]
  /\ UNCHANGED <<order, op, heap, X_tensor, filter_tensor, Y_tensor, pre>>

\* Lines 41-51: the transposed copies of the filter and of the input.
NCHW_Shuffle ==
  /\ order = "NCHW"
  /\ pc = "sized"
  /\ LET Ft == NCHW_filter_tensor(heap["filter"], dims, op)
         Xt == NCHW_X_tensor(heap["X"], dims)
     IN /\ heap' = [heap EXCEPT !["filter_tensor"] = Ft.data, !["X_tensor"] = Xt.data]
        /\ filter_tensor' = [buf |-> "filter_tensor", dims |-> Ft.dims]
        /\ X_tensor' = [buf |-> "X_tensor", dims |-> Xt.dims]
  /\ pc' = "prepared"
  /\ UNCHANGED <<order, op, dims, Y_tensor, err, pre>>

\* Mutant of NCHW_Contract: Y_tensor is a map of the caller's output buffer.
NCHW_Contract_in_place ==
  /\ order = "NCHW"
  /\ pc = "prepared"
  /\ LET Yt == NCHW_Convolve(Deref(heap, X_tensor), Deref(heap, filter_tensor), dims, op)
     IN /\ heap' = [heap EXCEPT !["Y"] = Yt.data]
        /\ Y_tensor' = [buf |-> "Y", dims |-> Yt.dims]
  /\ pc' = "contracted"
  /\ UNCHANGED <<order, op, dims, X_tensor, filter_tensor, err, pre>>

\* Lines 56-94: Y_tensor, a tensor of its own, receives the contraction.
NCHW_Contract ==
  /\ order = "NCHW"
  /\ pc = "prepared"
  /\ LET Yt == NCHW_Convolve(Deref(heap, X_tensor), Deref(heap, filter_tensor), dims, op)
     IN /\ heap' = [heap EXCEPT !["Y_tensor"] = Yt.data]
        /\ Y_tensor' = [buf |-> "Y_tensor", dims |-> Yt.dims]
  /\ pc' = "contracted"
  /\ UNCHANGED <<order, op, dims, X_tensor, filter_tensor, err, pre>>

\* Lines 98-101: the bias is added to Y_tensor in place.
NCHW_Bias ==
  /\ order = "NCHW"
  /\ pc = "contracted"
  /\ heap' = [heap EXCEPT ![Y_tensor.buf] = NCHW_BiasAdd(heap[Y_tensor.buf], dims, heap["bias"])]
  /\ pc' = "biased"
  /\ UNCHANGED <<order, op, dims, X_tensor, filter_tensor, Y_tensor, err, pre>>

\* Lines 103-109: the transpose back into the caller's output, and the return.
NCHW_Transpose ==
  /\ order = "NCHW"
  /\ pc = "biased"
  /\ heap' = Release([heap EXCEPT !["Y"] = NCHW_Output(Deref(heap, Y_tensor))])
  /\ X_tensor' = NoView /\ filter_tensor' = NoView /\ Y_tensor' = NoView
  /\ pc' = "done"
  /\ UNCHANGED <<order, op, dims, err, pre>>

(***************************************************************************)
(* EigenConvOp<T>::RunOnDeviceWithOrderNHWC                                *)
(***************************************************************************)

\* Mutant of NHWC_Enforce: the kernel width of the filter is not compared
\* with kernel_w_.
NHWC_Enforce_no_kernel_w(d, o) ==
  /\ 4 = Len(d.filter)
  /\ d.filter[2] = o.kernel_h_
  /\ d.filter[4] = d.X[4]
  /\ 1 = Len(d.bias)
  /\ d.bias[1] = d.filter[1]

\* The CAFFE_ENFORCE conditions on the filter and the bias, in order.
NHWC_Enforce(d, o) ==
  /\ 4 = Len(d.filter)
  /\ d.filter[2] = o.kernel_h_
  /\ d.filter[3] = o.kernel_w_
  /\ d.filter[4] = d.X[4]
  /\ 1 = Len(d.bias)
  /\ d.bias[1] = d.filter[1]

\* Mutant of NHWC_temp_filter: the filter is copied without the transpose.
NHWC_temp_filter_untransposed(filter_data, d, o) == filter_data

\* temp_filter: the caller's filter, mapped as a column-major
\* (kernel_h * kernel_w * C) x M array, transposed into an M x (kernel_h *
\* kernel_w * C) array of its own.
NHWC_temp_filter(filter_data, d, o) ==
  ArrayMapTranspose(filter_data, o.kernel_h_ * o.kernel_w_ * d.X[4], d.filter[1])

\* Mutant of NHWC_Patches: the pads after are passed where the pads before belong.
NHWC_Patches_pads_swapped(Xt, o) ==
  ExtractImagePatches(Xt, o.kernel_w_, o.kernel_h_, o.stride_w_, o.stride_h_, o.dilation_w_, o.dilation_h_, o.pad_r_, o.pad_l_, o.pad_b_, o.pad_t_, 0)

\* The extract_image_patches call: Eigen's rows are the width and its cols
\* the height, and the stride, dilation and pad arguments follow that.
NHWC_Patches(Xt, o) ==
  ExtractImagePatches(Xt, o.kernel_w_, o.kernel_h_, o.stride_w_, o.stride_h_, o.dilation_w_, o.dilation_h_, o.pad_l_, o.pad_r_, o.pad_t_, o.pad_b_, 0)

\* filter_tensor.reshape(kernel_dims): the matrix the patches are contracted with.
NHWC_KernelMatrix(Ft, d, o) ==
  Reshape(Ft, <<o.kernel_h_ * o.kernel_w_ * d.X[4], d.filter[1]>>)

\* Y_tensor = X_tensor.extract_image_patches(...).reshape(pre_contract_dims)
\*              .contract(filter_tensor.reshape(kernel_dims), contract_dims)
\*              .reshape(Y_tensor.dimensions())
NHWC_Convolve(Xt, Ft, Yt_dims, d, o) ==
  LET M == d.filter[1]
      pre_contract_dims == <<Size(d.Y) \div M, o.kernel_h_ * o.kernel_w_ * d.X[4]>>
  IN Reshape(Contract(Reshape(NHWC_Patches(Xt, o), pre_contract_dims),
                      NHWC_KernelMatrix(Ft, d, o)),
             Yt_dims)

\* Mutant of NHWC_BiasAdd: the bias is not added.
NHWC_BiasAdd_skipped(Y_data, d, bias_data) == Y_data

\* Y_arr = Y_arr.colwise() + bias_arr over Y->mutable_data<T>().
NHWC_BiasAdd(Y_data, d, bias_data) == ColwiseAdd(Y_data, d.filter[1], bias_data)

\* Lines 114-126: read the dimensions, enforce the shapes, SetOutputSize.
NHWC_Validate ==
  /\ order = "NHWC"
  /\ pc = "start"
  /\ IF ~NHWC_Enforce(dims, op)
       THEN pc' = "failed" /\ err' = "EnforceNotMet" /\ dims' = dims
     ELSE IF ~SetOutputSize(order, dims, op).ok
       THEN pc' = "failed" /\ err' = "InconsistentOutputSize" /\ dims' = dims
     ELSE pc' = "sized" /\ err' = err
            /\ dims' = [dims EXCEPT !.Y = SetOutputSize(order, dims, op).Y]
  /\ UNCHANGED <<order, op, heap, X_tensor, filter_tensor, Y_tensor, pre>>

\* Lines 127-145: the transposed copy of the filter, and the tensor maps over
\* the caller's input and output and over that copy.
NHWC_Map ==
  /\ order = "NHWC"
  /\ pc = "sized"
  /\ heap' = [heap EXCEPT !["temp_filter"] = NHWC_temp_filter(heap["filter"], dims, op)]
  /\ X_tensor' = [buf |-> "X", dims |-> <<dims.X[1], dims.X[2], dims.X[3], dims.X[4]>>]
  /\ Y_tensor' = [buf |-> "Y", dims |-> <<dims.X[1], dims.Y[2], dims.Y[3], dims.filter[1]>>]
  /\ filter_tensor' = [buf |-> "temp_filter",
                       dims |-> <<op.kernel_h_, op.kernel_w_, dims.X[4], dims.filter[1]>>]
  /\ pc' = "prepared"
  /\ UNCHANGED <<order, op, dims, err, pre>>

\* Lines 150-186: the contraction is assigned through Y_tensor.
NHWC_Contract ==
  /\ order = "NHWC"
  /\ pc = "prepared"
  /\ heap' = [heap EXCEPT ![Y_tensor.buf] =
                NHWC_Convolve(Deref(heap, X_tensor), Deref(heap, filter_tensor),
                              Y_tensor.dims, dims, op).data]
  /\ pc' = "contracted"
  /\ UNCHANGED <<order, op, dims, X_tensor, filter_tensor, Y_tensor, err, pre>>

\* Lines 190-194: the bias is added to the caller's output in place, and the
\* call returns.
NHWC_Bias ==
  /\ order = "NHWC"
  /\ pc = "contracted"
  /\ heap' = Release([heap EXCEPT !["Y"] = NHWC_BiasAdd(heap["Y"], dims, heap["bias"])])
  /\ X_tensor' = NoView /\ filter_tensor' = NoView /\ Y_tensor' = NoView
  /\ pc' = "done"
  /\ UNCHANGED <<order, op, dims, err, pre>>

(***************************************************************************)
(* The calls explored: bounded shapes and parameters, fixed value patterns *)
(***************************************************************************)

\* The batch size N is at most MaxBatch.
MaxBatch == 2

\* The input channels C and the output channels M are at most MaxChannels.
MaxChannels == 2

\* The input height H and width W are at most MaxDim.
MaxDim == 2

\* kernel_h_ and kernel_w_ are at most MaxKernel.
MaxKernel == 2

\* stride_h_ and stride_w_ are at most MaxStride.
MaxStride == 2

\* dilation_h_ and dilation_w_ are at most MaxDilation.
MaxDilation == 2

\* Each of pad_t_, pad_b_, pad_l_, pad_r_ is at most MaxPad.
MaxPad == 1

\* A call is at most MaxWeight unit steps away from the plain call (N = C =
\* M = 1, 1x1 kernel, stride 1, dilation 1, no pad), the input extents being
\* free; the padding example is explored besides.
MaxWeight == 2

\* One axis of a convolution: input extent, kernel, stride, dilation and the
\* pads before and after; kept when it yields at least one output position.
AxisGeoms ==
  {g \in [in : 1..MaxDim, kernel : 1..MaxKernel, stride : 1..MaxStride,
          dilation : 1..MaxDilation, pad_before : 0..MaxPad, pad_after : 0..MaxPad] :
     OutputDim(g.in, g.kernel, g.stride, g.dilation, g.pad_before, g.pad_after) >= 1}

\* How far an axis is from the plain one (kernel 1, stride 1, dilation 1, no pad).
AxisWeight(g) ==
  (g.kernel - 1) + (g.stride - 1) + (g.dilation - 1) + g.pad_before + g.pad_after

\* The axis of the padding example: extent 3, kernel 3, pad 1 on both sides.
ExampleAxis ==
  [in |-> 3, kernel |-> 3, stride |-> 1, dilation |-> 1, pad_before |-> 1, pad_after |-> 1]

\* What a call is given: a well-formed call with a zero, all-ones or patterned
\* filter, or a call with one shape wrong.
FilterKinds == {"zero", "ones", "pattern"}

ShapeFaults == {"filter_rank", "filter_channels", "filter_kernel_h", "filter_kernel_w",
                "bias_rank", "bias_length"}

SizeFaults == {"output_h", "output_w"}

\* The shape checks read no stride, dilation or pad: the calls with a wrong
\* filter or bias shape are explored on the axes that have none.
PlainAxis(g) == g.stride = 1 /\ g.dilation = 1 /\ g.pad_before = 0 /\ g.pad_after = 0

XValue(i) == <<3, -1, 4, 1, -5, 9, 2>>[((i - 1) % 7) + 1]

FilterValue(kind, i) ==
  CASE kind = "zero" -> 0
    [] kind = "ones" -> 1
    [] OTHER -> <<2, -7, 1, 8, -3>>[((i - 1) % 5) + 1]

BiasValue(i) == <<5, -2, 3, 7>>[((i - 1) % 4) + 1]

\* The descriptor of a (n, c, h, w) tensor in layout ord.
Physical(ord, n, c, h, w) == IF ord = "NCHW" THEN <<n, c, h, w>> ELSE <<n, h, w, c>>

\* The position (1-based, channel-first order) of the logical element that a
\* rank-4 descriptor d in layout ord holds at linear index q.
LogicalIndex(ord, d, q) ==
  IF ord = "NCHW" THEN q + 1
  ELSE LET n == Coord(d, 0, q)
           h == Coord(d, 1, q)
           w == Coord(d, 2, q)
           c == Coord(d, 3, q)
       IN ((n * d[4] + c) * d[2] + h) * d[3] + w + 1

\* The operator parameters of a pair of axes.
Params(gh, gw) ==
  [kernel_h_ |-> gh.kernel, kernel_w_ |-> gw.kernel,
   stride_h_ |-> gh.stride, stride_w_ |-> gw.stride,
   dilation_h_ |-> gh.dilation, dilation_w_ |-> gw.dilation,
   pad_t_ |-> gh.pad_before, pad_b_ |-> gh.pad_after,
   pad_l_ |-> gw.pad_before, pad_r_ |-> gw.pad_after]

\* The descriptors the caller passes: those the parameters call for, with the
\* one dimension the fault names (if any) made wrong.
CallerDims(ord, N, C, M, gh, gw, what) ==
  LET fd == Physical(ord, M,
                     IF what = "filter_channels" THEN C + 1 ELSE C,
                     IF what = "filter_kernel_h" THEN gh.kernel + 1 ELSE gh.kernel,
                     IF what = "filter_kernel_w" THEN gw.kernel + 1 ELSE gw.kernel)
      oh == OutputDim(gh.in, gh.kernel, gh.stride, gh.dilation, gh.pad_before, gh.pad_after)
      ow == OutputDim(gw.in, gw.kernel, gw.stride, gw.dilation, gw.pad_before, gw.pad_after)
  IN [X      |-> Physical(ord, N, C, gh.in, gw.in),
      filter |-> IF what = "filter_rank" THEN SubSeq(fd, 1, 3) ELSE fd,
      bias   |-> CASE what = "bias_rank" -> <<M, 1>>
                   [] what = "bias_length" -> <<M + 1>>
                   [] OTHER -> <<M>>,
      Y      |-> Physical(ord, N, M,
                          IF what = "output_h" THEN oh + 1 ELSE oh,
                          IF what = "output_w" THEN ow + 1 ELSE ow)]

\* The buffers behind those descriptors (the output buffer holds stale values);
\* the call's own buffers do not exist yet.
CallerHeap(ord, d, kind) ==
  [b \in Caller \cup Locals |->
     CASE b = "X" -> [p \in 1..Size(d.X) |-> XValue(LogicalIndex(ord, d.X, p - 1))]
       [] b = "filter" ->
            [p \in 1..Size(d.filter) |->
               FilterValue(kind, IF Len(d.filter) = 4
                                   THEN LogicalIndex(ord, d.filter, p - 1) ELSE p)]
       [] b = "bias" -> [p \in 1..Size(d.bias) |-> BiasValue(p)]
       [] b = "Y" -> [p \in 1..Size(d.Y) |-> -99]
       [] OTHER -> <<>>]

\* The state in which an operator of layout ord is about to run on such a call.
Call(ord, N, C, M, gh, gw, what) ==
  LET d == CallerDims(ord, N, C, M, gh, gw, what)
      h == CallerHeap(ord, d, IF what \in FilterKinds THEN what ELSE "pattern")
  IN /\ order = ord
     /\ op = Params(gh, gw)
     /\ dims = d
     /\ heap = h
     /\ pre = [dims |-> d, heap |-> h]
     /\ X_tensor = NoView /\ filter_tensor = NoView /\ Y_tensor = NoView
     /\ pc = "start"
     /\ err = "none"

Init ==
  \E ord \in {"NCHW", "NHWC"} :
    \/ \E gh \in AxisGeoms :
         /\ AxisWeight(gh) <= MaxWeight
         /\ \E gw \in AxisGeoms :
              /\ AxisWeight(gh) + AxisWeight(gw) <= MaxWeight
              /\ \E N \in 1..MaxBatch, C \in 1..MaxChannels, M \in 1..MaxChannels :
                   /\ AxisWeight(gh) + AxisWeight(gw) + (N - 1) + (C - 1) + (M - 1) <= MaxWeight
                   /\ \E what \in {"zero", "pattern"} \cup SizeFaults
                                     \cup (IF PlainAxis(gh) /\ PlainAxis(gw) THEN ShapeFaults ELSE {}) :
                        Call(ord, N, C, M, gh, gw, what)
    \/ Call(ord, 1, 1, 1, ExampleAxis, ExampleAxis, "ones")

Next ==
  \/ NCHW_Validate
  \/ NCHW_Shuffle
  \/ NCHW_Contract
  \/ NCHW_Bias
  \/ NCHW_Transpose
  \/ NHWC_Validate
  \/ NHWC_Map
  \/ NHWC_Contract
  \/ NHWC_Bias

Spec == Init /\ [][Next]_vars

(***************************************************************************)
(* The two entry points as functions of the caller's buffers               *)
(***************************************************************************)

\* What RunOnDeviceWithOrderNCHW leaves in the output buffer of a call that passes its checks.
NCHW_Run(X_data, filter_data, bias_data, d, o) ==
  LET Ft == NCHW_filter_tensor(filter_data, d, o)
      Xt == NCHW_X_tensor(X_data, d)
      Yt == NCHW_Convolve(Xt, Ft, d, o)
  IN NCHW_Output([dims |-> Yt.dims, data |-> NCHW_BiasAdd(Yt.data, d, bias_data)])

\* What RunOnDeviceWithOrderNHWC leaves in the output buffer of a call that passes its checks.
NHWC_Run(X_data, filter_data, bias_data, d, o) ==
  LET Ft == TensorMap(NHWC_temp_filter(filter_data, d, o),
                      <<o.kernel_h_, o.kernel_w_, d.X[4], d.filter[1]>>)
      Xt == TensorMap(X_data, <<d.X[1], d.X[2], d.X[3], d.X[4]>>)
      Yd == <<d.X[1], d.Y[2], d.Y[3], d.filter[1]>>
  IN NHWC_BiasAdd(NHWC_Convolve(Xt, Ft, Yd, d, o).data, d, bias_data)

(***************************************************************************)
(* Reading a call by logical coordinates, whatever the layout              *)
(***************************************************************************)

\* A rank-4 descriptor read as (n, c, h, w) in layout ord.
Logical(ord, d) == IF ord = "NCHW" THEN d ELSE <<d[1], d[4], d[2], d[3]>>

\* The coefficient (n, c, h, w) of a buffer with descriptor d in layout ord.
Elem(ord, data, d, n, c, h, w) ==
  IF ord = "NCHW" THEN At(TensorMap(data, d), <<n, c, h, w>>)
                  ELSE At(TensorMap(data, d), <<n, h, w, c>>)

Batch == Logical(order, pre.dims.X)[1]

Channels == Logical(order, pre.dims.X)[2]

Height == Logical(order, pre.dims.X)[3]

Width == Logical(order, pre.dims.X)[4]

OutChannels == pre.dims.filter[1]

OutHeight == Logical(order, pre.dims.Y)[3]

OutWidth == Logical(order, pre.dims.Y)[4]

\* The input value the call was given for batch n, channel c, row h, column w;
\* zero outside the image.
InputAt(n, c, h, w) ==
  IF h < 0 \/ h >= Height \/ w < 0 \/ w >= Width THEN 0
  ELSE Elem(order, pre.heap["X"], pre.dims.X, n, c, h, w)

\* The filter weight the call was given for output channel m, input channel c, tap (kh, kw).
FilterAt(m, c, kh, kw) == Elem(order, pre.heap["filter"], pre.dims.filter, m, c, kh, kw)

\* The value the output buffer holds now for batch n, output channel m, position (oh, ow).
OutputAt(n, m, oh, ow) == Elem(order, heap["Y"], dims.Y, n, m, oh, ow)

\* The sum over taps and channels of weight times sampled input, in the order (kh, kw, c).
RECURSIVE TapSum(_, _, _, _, _)
TapSum(n, m, oh, ow, k) ==
  IF k = op.kernel_h_ * op.kernel_w_ * Channels THEN 0
  ELSE LET c  == k % Channels
           kw == (k \div Channels) % op.kernel_w_
           kh == k \div (Channels * op.kernel_w_)
       IN FilterAt(m, c, kh, kw)
            * InputAt(n, c, oh * op.stride_h_ - op.pad_t_ + kh * op.dilation_h_,
                            ow * op.stride_w_ - op.pad_l_ + kw * op.dilation_w_)
          + TapSum(n, m, oh, ow, k + 1)

\* The output positions of the call.
OutputPositions == (0..(Batch - 1)) \X (0..(OutChannels - 1)) \X (0..(OutHeight - 1)) \X (0..(OutWidth - 1))

(***************************************************************************)
(* Properties                                                              *)
(***************************************************************************)

\* The layout the operator was not built with.
OtherOrder == IF order = "NCHW" THEN "NHWC" ELSE "NCHW"

\* A rank-4 tensor of the call, with the same logical values, in the other layout.
Relaid(data, d) ==
  IF order = "NCHW" THEN Shuffle(TensorMap(data, d), <<0, 2, 3, 1>>)
                    ELSE Shuffle(TensorMap(data, d), <<0, 3, 1, 2>>)

\* The descriptors of the same call in the other layout.
OtherDims ==
  [X      |-> Relaid(pre.heap["X"], pre.dims.X).dims,
   filter |-> Relaid(pre.heap["filter"], pre.dims.filter).dims,
   bias   |-> pre.dims.bias,
   Y      |-> Relaid(pre.heap["Y"], pre.dims.Y).dims]

\* The output buffer the other entry point computes for the same call.
OtherResult ==
  IF order = "NCHW"
    THEN NHWC_Run(Relaid(pre.heap["X"], pre.dims.X).data,
                  Relaid(pre.heap["filter"], pre.dims.filter).data,
                  pre.heap["bias"], OtherDims, op)
    ELSE NCHW_Run(Relaid(pre.heap["X"], pre.dims.X).data,
                  Relaid(pre.heap["filter"], pre.dims.filter).data,
                  pre.heap["bias"], OtherDims, op)

\* C1: a completed call leaves, at every output position (n, m, oh, ow), the
\* value that the entry point of the other layout computes at the same
\* logical position from the same logical input, filter and bias.
C1_LayoutEquivalence ==
  pc = "done" =>
    LET other == OtherResult
        odims == OtherDims.Y
    IN \A q \in OutputPositions :
         OutputAt(q[1], q[2], q[3], q[4])
           = Elem(OtherOrder, other, odims, q[1], q[2], q[3], q[4])

\* C1 witness: a completed channel-first call with two batches, two input
\* channels, a non-square image and a kernel taller than wide.
C1_Witness ==
  /\ pc = "done" /\ order = "NCHW"
  /\ Channels = 2 /\ Height # Width
  /\ op.kernel_h_ = 2 /\ op.kernel_w_ = 1
  /\ heap["Y"] # pre.heap["Y"]

\* The call of the padding example: one batch, one channel, a 3x3 image, a
\* 3x3 all-ones kernel, stride 1, dilation 1, padding 1 on all four sides.
IsPaddingExample ==
  /\ Batch = 1 /\ Channels = 1 /\ OutChannels = 1 /\ Height = 3 /\ Width = 3
  /\ op.kernel_h_ = 3 /\ op.kernel_w_ = 3
  /\ op.stride_h_ = 1 /\ op.stride_w_ = 1 /\ op.dilation_h_ = 1 /\ op.dilation_w_ = 1
  /\ op.pad_t_ = 1 /\ op.pad_b_ = 1 /\ op.pad_l_ = 1 /\ op.pad_r_ = 1
  /\ \A p \in 1..9 : pre.heap["filter"][p] = 1

\* The sum of the input cells of rows r0..r1 and columns c0..c1 of batch 0, channel 0.
RECURSIVE CellSum(_, _, _, _, _)
CellSum(r0, r1, c0, c1, k) ==
  LET wide == c1 - c0 + 1
  IN IF k = (r1 - r0 + 1) * wide THEN 0
     ELSE InputAt(0, 0, r0 + (k \div wide), c0 + (k % wide)) + CellSum(r0, r1, c0, c1, k + 1)

\* The corners and the centre of the padding example: the four in-bounds
\* cells under each corner window, all nine cells under the centre window.
PaddingExampleOutput ==
  /\ OutHeight = 3 /\ OutWidth = 3
  /\ OutputAt(0, 0, 0, 0) = pre.heap["bias"][1] + CellSum(0, 1, 0, 1, 0)
  /\ OutputAt(0, 0, 0, 2) = pre.heap["bias"][1] + CellSum(0, 1, 1, 2, 0)
  /\ OutputAt(0, 0, 2, 0) = pre.heap["bias"][1] + CellSum(1, 2, 0, 1, 0)
  /\ OutputAt(0, 0, 2, 2) = pre.heap["bias"][1] + CellSum(1, 2, 1, 2, 0)
  /\ OutputAt(0, 0, 1, 1) = pre.heap["bias"][1] + CellSum(0, 2, 0, 2, 0)

IsPointwise ==
  /\ op.kernel_h_ = 1 /\ op.kernel_w_ = 1
  /\ op.stride_h_ = 1 /\ op.stride_w_ = 1 /\ op.dilation_h_ = 1 /\ op.dilation_w_ = 1
  /\ op.pad_t_ = 0 /\ op.pad_b_ = 0 /\ op.pad_l_ = 0 /\ op.pad_r_ = 0

\* Row m of the (M x C) filter matrix times the input channel vector at (n, h, w).
RECURSIVE ChannelDot(_, _, _, _, _)
ChannelDot(n, m, h, w, c) ==
  IF c = Channels THEN 0
  ELSE FilterAt(m, c, 0, 0) * InputAt(n, c, h, w) + ChannelDot(n, m, h, w, c + 1)

\* C3: a completed pointwise call has an output of the input's spatial size
\* whose channel vector at every (n, h, w) is the filter matrix times the
\* input channel vector there, plus the bias vector.
C3_PointwiseIsMatMul ==
  (pc = "done" /\ IsPointwise) =>
    /\ OutHeight = Height /\ OutWidth = Width
    /\ \A q \in OutputPositions :
         OutputAt(q[1], q[2], q[3], q[4])
           = ChannelDot(q[1], q[2], q[3], q[4], 0) + pre.heap["bias"][q[2] + 1]

\* C3 witness: a completed pointwise channel-last call with two input and
\* two output channels on an image of more than one cell.
C3_Witness ==
  /\ pc = "done" /\ IsPointwise /\ order = "NHWC"
  /\ Channels = 2 /\ OutChannels = 2 /\ Height * Width > 1
  /\ \E p \in 1..Len(pre.heap["filter"]) : pre.heap["filter"][p] # 0

\* Every weight of the filter the call was given is zero.
ZeroFilter == \A p \in 1..Len(pre.heap["filter"]) : pre.heap["filter"][p] = 0

\* C4: a completed call with an all-zero filter leaves bias[m] in every
\* output element of channel m, whatever the batch and the position.
C4_ZeroFilterGivesBias ==
  (pc = "done" /\ ZeroFilter) =>
    \A q \in OutputPositions : OutputAt(q[1], q[2], q[3], q[4]) = pre.heap["bias"][q[2] + 1]

\* C4 witness: a completed zero-filter channel-first call with two output
\* channels of different bias and more than one output position per channel.
C4_Witness ==
  /\ pc = "done" /\ ZeroFilter /\ order = "NCHW"
  /\ OutChannels = 2 /\ OutHeight * OutWidth > 1
  /\ pre.heap["bias"][1] # pre.heap["bias"][2]

\* The caller's output tensor is as it was before the call: shape and contents.
OutputUntouched == dims.Y = pre.dims.Y /\ heap["Y"] = pre.heap["Y"]

\* The channel count of the input the call was given.
InputChannels == IF order = "NCHW" THEN pre.dims.X[2] ELSE pre.dims.X[4]

\* The channel dimension of a rank-4 filter in the layout of the call.
FilterChannels == IF order = "NCHW" THEN pre.dims.filter[2] ELSE pre.dims.filter[4]

\* The kernel height and width of a rank-4 filter in the layout of the call.
FilterKernel ==
  IF order = "NCHW" THEN <<pre.dims.filter[3], pre.dims.filter[4]>>
                    ELSE <<pre.dims.filter[2], pre.dims.filter[3]>>

\* One of the four shape conditions is broken: filter rank, bias rank, the
\* filter's channel dimension, the bias length.
InvalidShape ==
  \/ Len(pre.dims.filter) # 4
  \/ Len(pre.dims.bias) # 1
  \/ (Len(pre.dims.filter) = 4 /\ FilterChannels # InputChannels)
  \/ (Len(pre.dims.bias) = 1 /\ pre.dims.bias[1] # pre.dims.filter[1])

\* C5: a call whose shapes are invalid has, once it has run at all, failed
\* its enforce, with the output tensor's shape and contents as before.
C5_InvalidShapeFailsEarly ==
  (InvalidShape /\ pc # "start") =>
    (pc = "failed" /\ err = "EnforceNotMet" /\ OutputUntouched)

\* C5 witness: a channel-last call whose bias is longer than the filter has
\* output channels has failed.
C5_Witness ==
  /\ pc = "failed" /\ order = "NHWC"
  /\ Len(pre.dims.bias) = 1 /\ pre.dims.bias[1] # pre.dims.filter[1]
  /\ Len(pre.dims.filter) = 4 /\ FilterChannels = InputChannels

\* The output tensor the caller supplied has the spatial size the
\* convolution arithmetic yields for height and width.
ConsistentOutputSize ==
  /\ OutHeight = ((Height + op.pad_t_ + op.pad_b_ - op.dilation_h_ * (op.kernel_h_ - 1) - 1)
                    \div op.stride_h_) + 1
  /\ OutWidth = ((Width + op.pad_l_ + op.pad_r_ - op.dilation_w_ * (op.kernel_w_ - 1) - 1)
                   \div op.stride_w_) + 1

\* The filter and the bias pass every enforce of the entry point.
ShapesAccepted == IF order = "NCHW" THEN NCHW_Enforce(pre.dims, op) ELSE NHWC_Enforce(pre.dims, op)

\* C6: a call with accepted shapes but an output tensor of another spatial
\* size than the arithmetic yields never gets past the size check: once it
\* has run it has failed with InconsistentOutputSize.
C6_WrongOutputSizeFails ==
  (ShapesAccepted /\ ~ConsistentOutputSize /\ pc # "start") =>
    (pc = "failed" /\ err = "InconsistentOutputSize")

\* C6 witness: a channel-first call with an output one row too tall has failed.
C6_Witness ==
  /\ pc = "failed" /\ order = "NCHW" /\ ShapesAccepted
  /\ OutHeight = ((Height + op.pad_t_ + op.pad_b_ - op.dilation_h_ * (op.kernel_h_ - 1) - 1)
                    \div op.stride_h_) + 2

\* C7: at every point of a call the four caller-owned tensors have the
\* dimension descriptors they had before it, and their buffers the length
\* those descriptors call for.
C7_NoResize ==
  /\ dims = pre.dims
  /\ \A b \in Caller : Len(heap[b]) = Size(pre.dims[b])

\* C7 witness: a call has completed and has changed the values of its output buffer.
C7_Witness == pc = "done" /\ heap["Y"] # pre.heap["Y"]

\* The call holds the tensors it contracts: from the transposes or maps to the return.
Prepared == pc \in {"prepared", "contracted", "biased"}

\* The 2-D filter matrix the entry point hands to the contraction.
KernelMatrix ==
  IF order = "NCHW" THEN NCHW_KernelMatrix(Deref(heap, filter_tensor), dims, op)
                    ELSE NHWC_KernelMatrix(Deref(heap, filter_tensor), dims, op)

\* The 2-D patch matrix the entry point hands to the contraction.
PatchMatrix ==
  Reshape(IF order = "NCHW" THEN NCHW_Patches(Deref(heap, X_tensor), op)
                            ELSE NHWC_Patches(Deref(heap, X_tensor), op),
          <<Batch * OutHeight * OutWidth, op.kernel_h_ * op.kernel_w_ * Channels>>)

\* The kernel taps and input channels of the call.
Taps == (0..(op.kernel_h_ - 1)) \X (0..(op.kernel_w_ - 1)) \X (0..(Channels - 1))

\* C8: the filter matrix handed to the contraction has shape (kH*kW*C, M),
\* and its entry at row (kh*kW + kw)*C + c, column m is the caller's weight
\* for output channel m, tap (kh, kw), input channel c, in either layout;
\* the columns of the patch matrix are in the same (kh, kw, c) order.
C8_KernelMatrixLayout ==
  Prepared =>
    LET kernel_matrix == KernelMatrix
        patch_matrix  == PatchMatrix
    IN /\ kernel_matrix.dims = <<op.kernel_h_ * op.kernel_w_ * Channels, OutChannels>>
       /\ Len(kernel_matrix.data) = op.kernel_h_ * op.kernel_w_ * Channels * OutChannels
       /\ \A t \in Taps : \A m \in 0..(OutChannels - 1) :
            At(kernel_matrix, <<(t[1] * op.kernel_w_ + t[2]) * Channels + t[3], m>>)
              = FilterAt(m, t[3], t[1], t[2])
       /\ pc = "prepared" =>
            \A t \in Taps : \A n \in 0..(Batch - 1), oh \in 0..(OutHeight - 1), ow \in 0..(OutWidth - 1) :
              At(patch_matrix, <<(n * OutHeight + oh) * OutWidth + ow,
                                (t[1] * op.kernel_w_ + t[2]) * Channels + t[3]>>)
                = InputAt(n, t[3], oh * op.stride_h_ - op.pad_t_ + t[1] * op.dilation_h_,
                                ow * op.stride_w_ - op.pad_l_ + t[2] * op.dilation_w_)

\* C8 witness: a channel-last call stands before its contraction with a
\* patterned filter of two input channels and a kernel two columns wide.
C8_Witness ==
  /\ pc = "prepared" /\ order = "NHWC"
  /\ op.kernel_w_ = 2 /\ Channels = 2
  /\ ~ZeroFilter

\* The filter has rank 4 but not the configured kernel height and width.
KernelMismatch ==
  /\ Len(pre.dims.filter) = 4
  /\ FilterKernel # <<op.kernel_h_, op.kernel_w_>>

\* C9: a call whose rank-4 filter has another kernel height or width than
\* the operator's, all four shape conditions holding, has failed its enforce
\* once it has run at all, with the output tensor's shape and contents as before.
C9_KernelMismatchFails ==
  (KernelMismatch /\ ~InvalidShape /\ pc # "start") =>
    (pc = "failed" /\ err = "EnforceNotMet" /\ OutputUntouched)

\* C9 witness: a channel-first call whose filter is one column wider than
\* kernel_w_ has failed.
C9_Witness ==
  /\ pc = "failed" /\ order = "NCHW" /\ ~InvalidShape
  /\ Len(pre.dims.filter) = 4
  /\ pre.dims.filter[3] = op.kernel_h_ /\ pre.dims.filter[4] = op.kernel_w_ + 1

\* C10: the input, filter and bias hold at every point of every call the
\* values they were given; in the channel-first call the transposed input,
\* the transposed filter and the channel-last result are buffers of the call
\* itself, the caller's output is as it was until the call is done, and the
\* channel-last result that the last transpose copies already has its bias.
C10_InputsAndOutputFrame ==
  /\ \A b \in {"X", "filter", "bias"} : heap[b] = pre.heap[b]
  /\ order = "NCHW" =>
       /\ \A v \in {X_tensor, filter_tensor, Y_tensor} : v.buf \notin Caller
       /\ pc # "done" => heap["Y"] = pre.heap["Y"]
       /\ pc = "biased" =>
            LET result == Deref(heap, Y_tensor)
            IN \A q \in OutputPositions :
                 At(result, <<q[1], q[3], q[4], q[2]>>)
                   = pre.heap["bias"][q[2] + 1] + TapSum(q[1], q[2], q[3], q[4], 0)

\* C10 witness: a channel-first call stands before its last transpose, the
\* bias added to a result of its own, the caller's output not yet written.
C10_Witness ==
  /\ order = "NCHW" /\ pc = "biased"
  /\ Y_tensor.buf = "Y_tensor" /\ X_tensor.buf = "X_tensor" /\ filter_tensor.buf = "filter_tensor"
  /\ heap["Y"] = pre.heap["Y"]
  /\ ~ZeroFilter /\ OutChannels = 2

====
